---- MODULE Spec2Model ----
(***************************************************************************)
(* The two request routers of the repository, as one state machine.        *)
(*                                                                         *)
(*   variant = "logger"  the Router of src/unnamed/part_001: handlers      *)
(*                       return a Response, HandleRequest recovers panics  *)
(*                       and writes a completion log entry.                *)
(*   variant = "fu"      the Router of function-url-router/router.go:      *)
(*                       handlers return (response, error), no recovery.   *)
(*                                                                         *)
(* A path is a sequence of tokens: "/" is the slash character, any other   *)
(* token is a run of non-slash characters.  A method is a sequence of      *)
(* characters, so that strings.ToUpper is a conversion and not the         *)
(* identity.  Handlers and middleware are user code: each is named by the  *)
(* behaviour it has when it is called.                                     *)
(***************************************************************************)
EXTENDS Integers, Sequences, FiniteSets, TLC

VARIABLES
    variant,                  \* which Router type this router is
    routes,                   \* map[string]map[string]Handler
    preMiddleware,            \* []Middleware
    postMiddleware,           \* []Middleware
    notFoundHandler,          \* Handler
    methodNotAllowedHandler,  \* Handler
    panicHandler,             \* func(ctx, req) Response      (logger only)
    stripTrailingSlash,       \* bool                         (logger only)
    logger,                   \* what r.logger has printed    (logger only)
    call,                     \* per goroutine: the HandleRequest call it is in
    history                   \* the AddRoute calls made so far, in order

vars == <<variant, routes, preMiddleware, postMiddleware, notFoundHandler,
          methodNotAllowedHandler, panicHandler, stripTrailingSlash, logger,
          call, history>>

config == <<variant, routes, preMiddleware, postMiddleware, notFoundHandler,
            methodNotAllowedHandler, panicHandler, stripTrailingSlash>>

-----------------------------------------------------------------------------
(* Bounds of the model *)

MaxRoutes == 3      \* AddRoute calls
MaxServedRoutes == 2  \* AddRoute calls where requests are served as well
MaxMiddleware == 2  \* length of each middleware list
MaxRequests == 2    \* HandleRequest calls

-----------------------------------------------------------------------------
(* Program constants *)

StatusOK == 200
StatusCreated == 201
StatusBadRequest == 400
StatusUnauthorized == 401
StatusNotFound == 404
StatusMethodNotAllowed == 405
StatusInternalServerError == 500

-----------------------------------------------------------------------------
(* Strings *)

Slash == "/"

PathRoot == <<"/">>
PathA == <<"/", "a">>
PathASlash == <<"/", "a", "/">>
PathASlashSlash == <<"/", "a", "/", "/">>
PathHealth == <<"/", "health">>
PathEcho == <<"/", "echo">>

MethodGet == <<"G", "E", "T">>
MethodPost == <<"P", "O", "S", "T">>
MethodGetLower == <<"g", "e", "t">>

\* strings.ToUpper on one character.
UpperChar(c) ==
    CASE c = "g" -> "G"
      [] c = "e" -> "E"
      [] c = "t" -> "T"
      [] c = "p" -> "P"
      [] c = "o" -> "O"
      [] c = "s" -> "S"
      [] OTHER -> c

\* strings.ToUpper(method)
ToUpper(s) == [i \in 1..Len(s) |-> UpperChar(s[i])]

\* strings.TrimRight(path, "/"): every trailing slash is removed.
RECURSIVE TrimRight(_)
TrimRight(s) ==
    IF s = <<>> THEN s
    ELSE IF s[Len(s)] = Slash THEN TrimRight(SubSeq(s, 1, Len(s) - 1))
    ELSE s

-----------------------------------------------------------------------------
(* Requests, responses, handlers *)

NoHeaders == <<>>
SkipHeader == [h \in {"X-Skip-Logging"} |-> "true"]

\* A body is JSON text, a sequence of tokens; " " is white space.
NoBody == <<>>
BodyA1 == <<"{", "\"a\"", ":", "1", "}">>
BodyA1Spaced == <<"{", " ", "\"a\"", ":", " ", "1.0", " ", "}">>
BodyBroken == <<"{", "\"a\"", ":">>

\* events.LambdaFunctionURLRequest: RequestContext.HTTP.Method and .Path,
\* Headers, Body.
RequestWithBody(m, p, hd, body) ==
    [Method |-> m, Path |-> p, Headers |-> hd, Body |-> body]
Request(m, p, hd) == RequestWithBody(m, p, hd, NoBody)
NoRequest == Request(<<>>, <<>>, NoHeaders)

\* json.Unmarshal([]byte(text), &body): white space between tokens is
\* dropped, a number becomes a float64 (1.0 and 1 are the same value), text
\* that is not a complete document is an error.  The value is named as Go
\* prints it.
Unmarshal(text) ==
    LET tokens == SelectSeq(text, LAMBDA t : t # " ") IN
    CASE tokens = <<"{", "\"a\"", ":", "1", "}">> -> [err |-> FALSE, value |-> "map[a:1]"]
      [] tokens = <<"{", "\"a\"", ":", "1.0", "}">> -> [err |-> FALSE, value |-> "map[a:1]"]
      [] tokens = <<"{", "}">> -> [err |-> FALSE, value |-> "map[]"]
      [] OTHER -> [err |-> TRUE, value |-> "nil"]

\* json.Marshal(body): an object is written without white space, a float64
\* with an integral value without a fraction; any other body the bridge sees is
\* the map {"error": body} of the default handlers.
Marshal(body) ==
    CASE body = "map[a:1]" -> <<"{", "\"a\"", ":", "1", "}">>
      [] body = "map[]" -> <<"{", "}">>
      [] body = "nil" -> <<"null">>
      [] OTHER -> <<"{", "\"error\"", ":", body, "}">>

\* json.NewEncoder(w).Encode(body): the document and a line feed.
Encode(body) == Marshal(body) \o <<"\n">>

\* Response{}: the zero value.
ZeroResponse == [StatusCode |-> 0, Headers |-> {}, Body |-> "nil"]
Response(code, body) == [StatusCode |-> code, Headers |-> {}, Body |-> body]
JSONResponse(code, body) == [StatusCode |-> code, Headers |-> {"Content-Type"}, Body |-> body]

\* An outcome of running code: a response (with an error value in the "fu"
\* variant) or a panic, and the calls that were made, in order.
Event(ev, who, idx) == [ev |-> ev, who |-> who, idx |-> idx]
Returned(resp, err, trace) ==
    [kind |-> "resp", resp |-> resp, err |-> err, pval |-> "none", trace |-> trace]
Panicked(pval, trace) ==
    [kind |-> "panic", resp |-> ZeroResponse, err |-> "nil", pval |-> pval, trace |-> trace]

\* func defaultNotFoundHandler (logger)
defaultNotFoundHandler == JSONResponse(StatusNotFound, "Not Found")
\* func defaultMethodNotAllowedHandler (logger)
defaultMethodNotAllowedHandler == JSONResponse(StatusMethodNotAllowed, "Method Not Allowed")
\* func defaultPanicHandler (logger)
defaultPanicHandler == JSONResponse(StatusInternalServerError, "Internal Server Error")
\* func defaultNotFoundHandler (router.go)
FU_defaultNotFoundHandler == Response(StatusNotFound, "Not Found")
\* func defaultMethodNotAllowedHandler (router.go)
FU_defaultMethodNotAllowedHandler == Response(StatusMethodNotAllowed, "Method Not Allowed")

\* func echoHandler(ctx, req) of the README
echoHandler(req) ==
    LET body == Unmarshal(req.Body) IN
    IF body.err
    THEN JSONResponse(StatusBadRequest, "Invalid JSON")
    ELSE JSONResponse(StatusOK, body.value)

\* handler.ServeHTTP(ctx, req) / handler.HandleRequest(ctx, request), called
\* in the role `role` (route handler, not-found, method-not-allowed).  The
\* handlers a caller registers: "h1", "h2" and "nfCustom" return a response,
\* "hPanic" panics, "hErr" returns a response together with a non-nil error,
\* "echoHandler" answers with the request's body.
Invoke(h, role, req) ==
    LET t == <<Event(role, h, 0)>> IN
    CASE h = "h1" -> Returned(Response(StatusOK, "h1"), "nil", t)
      [] h = "echoHandler" -> Returned(echoHandler(req), "nil", t)
      [] h = "h2" -> Returned(Response(StatusCreated, "h2"), "nil", t)
      [] h = "hErr" -> Returned(Response(StatusInternalServerError, "hErr"), "boom", t)
      [] h = "nfCustom" -> Returned(Response(StatusNotFound, "nfCustom"), "nil", t)
      [] h = "hPanic" -> Panicked("hPanic", t)
      [] h = "defaultNotFoundHandler" ->
            Returned(IF variant = "logger" THEN defaultNotFoundHandler
                     ELSE FU_defaultNotFoundHandler, "nil", t)
      [] h = "defaultMethodNotAllowedHandler" ->
            Returned(IF variant = "logger" THEN defaultMethodNotAllowedHandler
                     ELSE FU_defaultMethodNotAllowedHandler, "nil", t)

\* r.panicHandler(ctx, req)
InvokePanicHandler(ph) ==
    LET t == <<Event("panicHandler", ph, 0)>> IN
    CASE ph = "defaultPanicHandler" -> Returned(defaultPanicHandler, "nil", t)
      [] ph = "phCustom" -> Returned(Response(503, "phCustom"), "nil", t)
      [] ph = "phPanic" -> Panicked("phPanic", t)

-----------------------------------------------------------------------------
(* Middleware *)

\* MiddlewareConfig.  isNil is the nil *MiddlewareConfig of router.go; the
\* logger variant holds the struct by value, so there it is never nil.
Config(routesX, methodsX, headersX) ==
    [isNil |-> FALSE, ExcludedRoutes |-> routesX, ExcludedMethods |-> methodsX,
     ExcludedHeaders |-> headersX]
NilConfig ==
    [isNil |-> TRUE, ExcludedRoutes |-> {}, ExcludedMethods |-> {},
     ExcludedHeaders |-> NoHeaders]
EmptyConfig == Config({}, {}, NoHeaders)
ExcludeHealth == Config({PathHealth}, {}, NoHeaders)
ExcludePost == Config({}, {MethodPost}, NoHeaders)
ExcludeSkipHeader == Config({}, {}, SkipHeader)

\* A middleware is named by what its function does:
\*   "pass"   runs its before-next logic, calls next, runs its after-next
\*            logic and returns next's result        (loggingMiddleware)
\*   "short"  returns 401 without calling next       (authMiddleware, no token)
\*   "tag"    calls next and adds a header to its response (headerMiddleware)
\*   "panic"  panics before calling next
Middleware(kind, cfg) == [Func |-> kind, Config |-> cfg]

\* The entries of one middleware list with their positions.
Layers(list, name) ==
    [i \in 1..Len(list) |-> [list |-> name, idx |-> i, mw |-> list[i]]]

Unauthorized == JSONResponse(StatusUnauthorized, "Unauthorized")

\* One middleware layer running around `inner`, the outcome of calling next.
\* `inner` is used only by the kinds that call next.
RunMiddleware(layer, inner) ==
    LET before == <<Event("before", layer.list, layer.idx)>>
        after == <<Event("after", layer.list, layer.idx)>>
        kind == layer.mw.Func
    IN  CASE kind = "short" -> Returned(Unauthorized, "nil", before)
          [] kind = "panic" -> Panicked("mwPanic", before)
          [] kind \in {"pass", "tag"} ->
                IF inner.kind = "panic"
                THEN Panicked(inner.pval, before \o inner.trace)
                ELSE Returned(
                        IF kind = "tag"
                        THEN [inner.resp EXCEPT !.Headers = @ \cup {"X-Custom-Header"}]
                        ELSE inner.resp,
                        inner.err,
                        before \o inner.trace \o after)

\* ServeHTTP of a handler wrapped by `layers` (outermost first) around the
\* handler whose outcome is `core`.
RECURSIVE ServeWrapped(_, _)
ServeWrapped(layers, core) ==
    IF layers = <<>> THEN core
    ELSE RunMiddleware(Head(layers), ServeWrapped(Tail(layers), core))

-----------------------------------------------------------------------------
(* The route table *)

\* StoreRoute with the inner map made anew on every call: the other methods
\* of the path are lost.
StoreRouteFresh(rt, path, method, handler) ==
    [p \in (DOMAIN rt) \cup {path} |->
        IF p = path THEN [m \in {method} |-> handler] ELSE rt[p]]

\* r.routes[path][method] = handler, making the inner map when it is missing.
StoreRoute(rt, path, method, handler) ==
    LET inner == IF path \in DOMAIN rt THEN rt[path] ELSE <<>> IN
    [p \in (DOMAIN rt) \cup {path} |->
        IF p = path
        THEN [m \in (DOMAIN inner) \cup {method} |->
                IF m = method THEN handler ELSE inner[m]]
        ELSE rt[p]]

\* Lookup with the method ignored: any handler of the path is taken.
LookupAnyMethod(rt, path, method) ==
    IF path \in DOMAIN rt
    THEN [role |-> "handler", h |-> rt[path][CHOOSE m \in DOMAIN rt[path] : TRUE]]
    ELSE [role |-> "notFound", h |-> notFoundHandler]

\* Lookup with the two terminal handlers exchanged.
LookupSwapped(rt, path, method) ==
    IF path \in DOMAIN rt
    THEN IF method \in DOMAIN rt[path]
         THEN [role |-> "handler", h |-> rt[path][method]]
         ELSE [role |-> "notFound", h |-> notFoundHandler]
    ELSE [role |-> "methodNotAllowed", h |-> methodNotAllowedHandler]

\* Lookup with the request's method upper-cased before it is compared.
LookupUpper(rt, path, method) ==
    IF path \in DOMAIN rt
    THEN IF ToUpper(method) \in DOMAIN rt[path]
         THEN [role |-> "handler", h |-> rt[path][ToUpper(method)]]
         ELSE [role |-> "methodNotAllowed", h |-> methodNotAllowedHandler]
    ELSE [role |-> "notFound", h |-> notFoundHandler]

\* The two-level lookup of HandleRequest / handleRouteRequest: which handler
\* ends the dispatch, and in which role.
Lookup(rt, path, method) ==
    IF path \in DOMAIN rt
    THEN IF method \in DOMAIN rt[path]
         THEN [role |-> "handler", h |-> rt[path][method]]
         ELSE [role |-> "methodNotAllowed", h |-> methodNotAllowedHandler]
    ELSE [role |-> "notFound", h |-> notFoundHandler]

-----------------------------------------------------------------------------
(* A HandleRequest call in progress *)

\* The goroutines that call HandleRequest.  A program that serves one request
\* at a time has one of them; a concurrent server has both.
Workers == {1, 2}
OneCaller == {1}

\* *http.Request: Method, URL.Path, Header (one value per name), Body.
HTTPRequest(m, p, hd, body) == [Method |-> m, URLPath |-> p, Header |-> hd, Body |-> body]
NoHTTPRequest == HTTPRequest(<<>>, <<>>, NoHeaders, NoBody)

\* What RunLocalServer has written: nothing yet, a status line with headers
\* and body, or nothing at all because the handler function panicked.
NoReply == [written |-> FALSE, aborted |-> FALSE, StatusCode |-> 0, Headers |-> {}, Body |-> <<>>]

\* No handler: the terminal handlers of a call that is not in progress.
NoHandlers == [notFound |-> "none", methodNotAllowed |-> "none", panic |-> "none"]

\* The terminal handlers the router holds at this moment.
InstalledHandlers ==
    [notFound |-> notFoundHandler, methodNotAllowed |-> methodNotAllowedHandler,
     panic |-> panicHandler]

IdleCall ==
    [pc |-> "idle",          \* idle, route, deferred, run, done
     n |-> 0,                \* HandleRequest calls this goroutine has begun
     req |-> NoRequest,
     path |-> <<>>,          \* the local variable path
     pre |-> <<>>,           \* the slices handed to createHandlerChain
     post |-> <<>>,
     resp |-> ZeroResponse,  \* the local variable resp
     err |-> "nil",          \* the local variable err: "nil" or the panic it wraps
     panicking |-> "none",   \* the value of a panic that is unwinding the call
     ret |-> ZeroResponse,   \* the Response the caller receives
     retErr |-> "nil",       \* the error the caller receives
     escaped |-> FALSE,      \* the panic left HandleRequest
     trace |-> <<>>,         \* handlers and middleware run by this call
     logged |-> 0,           \* completion entries this call has written
     recovered |-> 0,        \* times this call turned a panic into a response
     began |-> NoHandlers,   \* while in progress: the handlers installed when it began
     http |-> NoHTTPRequest, \* the *http.Request the local server received
     reply |-> NoReply]      \* what the local server wrote to its ResponseWriter

CanBegin(w) == call[w].pc \in {"idle", "done"} /\ call[w].n < MaxRequests

-----------------------------------------------------------------------------
(* The logger-based Router *)

\* func NewRouter(logger)
NewRouter ==
    /\ routes = <<>>
    /\ preMiddleware = <<>>
    /\ postMiddleware = <<>>
    /\ notFoundHandler = "defaultNotFoundHandler"
    /\ methodNotAllowedHandler = "defaultMethodNotAllowedHandler"
    /\ panicHandler = "defaultPanicHandler"
    /\ stripTrailingSlash = TRUE
    /\ logger = <<>>

\* func (r *Router) AddRoute(method, path, handler)
AddRoute(method, path, handler) ==
    /\ variant = "logger"
    /\ Len(history) < MaxRoutes
    /\ routes' = StoreRoute(routes, path, method, handler)
    /\ history' = Append(history, [method |-> method, path |-> path, handler |-> handler])
    /\ UNCHANGED <<variant, preMiddleware, postMiddleware, notFoundHandler,
                   methodNotAllowedHandler, panicHandler, stripTrailingSlash,
                   logger, call>>

\* func (r *Router) UsePre(mw, config)
UsePre(mw, cfg) ==
    /\ variant = "logger"
    /\ Len(preMiddleware) < MaxMiddleware
    /\ preMiddleware' = Append(preMiddleware, Middleware(mw, cfg))
    /\ UNCHANGED <<variant, routes, postMiddleware, notFoundHandler,
                   methodNotAllowedHandler, panicHandler, stripTrailingSlash,
                   logger, call, history>>

\* func (r *Router) UsePost(mw, config)
UsePost(mw, cfg) ==
    /\ variant = "logger"
    /\ Len(postMiddleware) < MaxMiddleware
    /\ postMiddleware' = Append(postMiddleware, Middleware(mw, cfg))
    /\ UNCHANGED <<variant, routes, preMiddleware, notFoundHandler,
                   methodNotAllowedHandler, panicHandler, stripTrailingSlash,
                   logger, call, history>>

\* func (r *Router) SetNotFoundHandler(handler)
SetNotFoundHandler(handler) ==
    /\ variant = "logger"
    /\ notFoundHandler' = handler
    /\ UNCHANGED <<variant, routes, preMiddleware, postMiddleware,
                   methodNotAllowedHandler, panicHandler, stripTrailingSlash,
                   logger, call, history>>

\* func (r *Router) SetMethodNotAllowedHandler(handler)
SetMethodNotAllowedHandler(handler) ==
    /\ variant = "logger"
    /\ methodNotAllowedHandler' = handler
    /\ UNCHANGED <<variant, routes, preMiddleware, postMiddleware,
                   notFoundHandler, panicHandler, stripTrailingSlash,
                   logger, call, history>>

\* func (r *Router) SetPanicHandler(handler)
SetPanicHandler(handler) ==
    /\ variant = "logger"
    /\ panicHandler' = handler
    /\ UNCHANGED <<variant, routes, preMiddleware, postMiddleware,
                   notFoundHandler, methodNotAllowedHandler, stripTrailingSlash,
                   logger, call, history>>

\* func (r *Router) SetStripTrailingSlash(strip)
SetStripTrailingSlash(strip) ==
    /\ variant = "logger"
    /\ stripTrailingSlash' = strip
    /\ UNCHANGED <<variant, routes, preMiddleware, postMiddleware,
                   notFoundHandler, methodNotAllowedHandler, panicHandler,
                   logger, call, history>>

\* The loop run upwards, i := 0 ... len-1: the last entry ends up outermost.
RECURSIVE WrapUpFrom(_, _, _)
WrapUpFrom(layers, i, built) ==
    IF i = 0 THEN built
    ELSE <<layers[i]>> \o WrapUpFrom(layers, i - 1, built)

\* The order in which one applyMiddleware loop wraps: i := len-1 ... 0, each
\* entry wrapped around what was built so far, so the first entry of the list
\* ends up outermost.
RECURSIVE WrapDownFrom(_, _, _)
WrapDownFrom(layers, i, built) ==
    IF i = 0 THEN built
    ELSE WrapDownFrom(layers, i - 1, <<layers[i]>> \o built)

\* func (r *Router) applyMiddleware(handler): the layers around handler,
\* outermost first.  Config is not read.
applyMiddleware(pre, post) ==
    LET withPost == WrapDownFrom(Layers(post, "post"), Len(post), <<>>)
    IN  WrapDownFrom(Layers(pre, "pre"), Len(pre), withPost)

\* Normalization with the flag ignored: trailing slashes are always removed.
NormalizePathAlways(path) == TrimRight(path)

\* The path HandleRequest looks up.
NormalizePath(path) ==
    IF stripTrailingSlash THEN TrimRight(path) ELSE path

\* HandleRequest, lines 101-116: the locals are declared, the deferred
\* function is registered, path and method are read from the request.
HandleRequest_Begin(w, req) ==
    /\ variant = "logger"
    /\ CanBegin(w)
    /\ call' = [call EXCEPT ![w] =
                  [IdleCall EXCEPT !.pc = "route", !.n = call[w].n + 1,
                                   !.req = req, !.path = req.Path,
                                   !.began = InstalledHandlers]]
    /\ UNCHANGED <<variant, routes, preMiddleware, postMiddleware, notFoundHandler,
                   methodNotAllowedHandler, panicHandler, stripTrailingSlash,
                   logger, history>>

\* HandleRequest, lines 118-132: normalization, lookup, and the call of the
\* handler that ends the dispatch.  Only a matched route handler is wrapped.
HandleRequest_Route(w) ==
    /\ variant = "logger"
    /\ call[w].pc = "route"
    /\ LET c == call[w]
           path == NormalizePath(c.path)
           found == Lookup(routes, path, c.req.Method)
           out == IF found.role = "handler"
                  THEN ServeWrapped(applyMiddleware(preMiddleware, postMiddleware),
                                    Invoke(found.h, "handler", c.req))
                  ELSE Invoke(found.h, found.role, c.req)
       IN  call' = [call EXCEPT ![w] =
                      [c EXCEPT !.pc = "deferred",
                                !.path = path,
                                !.trace = out.trace,
                                !.resp = out.resp,
                                !.ret = out.resp,
                                !.panicking = out.pval]]
    /\ UNCHANGED <<variant, routes, preMiddleware, postMiddleware, notFoundHandler,
                   methodNotAllowedHandler, panicHandler, stripTrailingSlash,
                   logger, history>>

\* func (r *Router) logRequestCompletion(req, resp, duration, err): the entry.
logRequestCompletion(req, resp, err) ==
    [Method |-> req.Method, Path |-> req.Path, StatusCode |-> resp.StatusCode,
     err |-> err]

\* HandleRequest, lines 106-113: the deferred function.  The result of
\* HandleRequest is unnamed, so the assignment to resp after a recovered panic
\* does not reach the caller: the caller receives the zero Response.  A panic
\* of r.panicHandler leaves the deferred function and HandleRequest.
HandleRequest_Deferred(w) ==
    /\ variant = "logger"
    /\ call[w].pc = "deferred"
    /\ LET c == call[w]
           ph == InvokePanicHandler(panicHandler)
       IN  IF c.panicking = "none"
           THEN /\ logger' = Append(logger, logRequestCompletion(c.req, c.resp, c.err))
                /\ call' = [call EXCEPT ![w] =
                              [c EXCEPT !.pc = "done", !.logged = c.logged + 1,
                                        !.began = NoHandlers]]
           ELSE IF ph.kind = "panic"
           THEN /\ logger' = logger
                /\ call' = [call EXCEPT ![w] =
                              [c EXCEPT !.pc = "done",
                                        !.err = c.panicking,
                                        !.panicking = ph.pval,
                                        !.escaped = TRUE,
                                        !.began = NoHandlers,
                                        !.ret = ZeroResponse,
                                        !.trace = c.trace \o ph.trace]]
           ELSE /\ logger' = Append(logger, logRequestCompletion(c.req, ph.resp, c.panicking))
                /\ call' = [call EXCEPT ![w] =
                              [c EXCEPT !.pc = "done",
                                        !.err = c.panicking,
                                        !.resp = ph.resp,
                                        !.panicking = "none",
                                        !.recovered = c.recovered + 1,
                                        !.logged = c.logged + 1,
                                        !.began = NoHandlers,
                                        !.ret = ZeroResponse,
                                        !.trace = c.trace \o ph.trace]]
    /\ UNCHANGED <<variant, routes, preMiddleware, postMiddleware, notFoundHandler,
                   methodNotAllowedHandler, panicHandler, stripTrailingSlash,
                   history>>

-----------------------------------------------------------------------------
(* The local bridge: LambdaAdapter and RunLocalServer *)

\* strings.ToLower on a header name.
LowerHeaderName(k) ==
    CASE k = "Content-Type" -> "content-type"
      [] k = "X-Skip-Logging" -> "x-skip-logging"
      [] OTHER -> k

\* The headers map of httpToLambdaRequest: every name lower-cased.
LowerHeaders(header) ==
    [k \in {LowerHeaderName(n) : n \in DOMAIN header} |->
        header[CHOOSE n \in DOMAIN header : LowerHeaderName(n) = k]]

\* httpToLambdaRequest with the body left out of the event.
httpToLambdaRequestNoBody(r) ==
    RequestWithBody(r.Method, r.URLPath, LowerHeaders(r.Header), NoBody)

\* func (la *LambdaAdapter) httpToLambdaRequest(r)
httpToLambdaRequest(r) ==
    RequestWithBody(r.Method, r.URLPath, LowerHeaders(r.Header), r.Body)

\* The local server has answered the HTTP request worker w received, if any.
Answered(w) == call[w].http = NoHTTPRequest \/ call[w].reply.written \/ call[w].reply.aborted

\* func (la *LambdaAdapter) ServeHTTP(r), up to line 116 of the HandleRequest
\* call it makes: the request is converted and handed to the router.
LambdaAdapter_ServeHTTP(w, r) ==
    /\ variant = "logger"
    /\ CanBegin(w)
    /\ Answered(w)
    /\ LET lambdaReq == httpToLambdaRequest(r) IN
       call' = [call EXCEPT ![w] =
                  [IdleCall EXCEPT !.pc = "route", !.n = call[w].n + 1,
                                   !.req = lambdaReq, !.path = lambdaReq.Path,
                                   !.began = InstalledHandlers,
                                   !.http = r]]
    /\ UNCHANGED <<variant, routes, preMiddleware, postMiddleware, notFoundHandler,
                   methodNotAllowedHandler, panicHandler, stripTrailingSlash,
                   logger, history>>

\* RunLocalServer, lines 92-99: the reply writer.  A panic that left
\* HandleRequest leaves the handler function too, and WriteHeader panics on
\* a status code below 100: in both cases nothing is written.
RunLocalServer_Reply(w) ==
    /\ variant = "logger"
    /\ call[w].pc = "done"
    /\ ~Answered(w)
    /\ LET resp == call[w].ret IN
       call' = [call EXCEPT ![w].reply =
                  IF call[w].escaped \/ resp.StatusCode < 100
                  THEN [NoReply EXCEPT !.aborted = TRUE]
                  ELSE [written |-> TRUE, aborted |-> FALSE,
                        StatusCode |-> resp.StatusCode,
                        Headers |-> resp.Headers,
                        Body |-> Encode(resp.Body)]]
    /\ UNCHANGED <<variant, routes, preMiddleware, postMiddleware, notFoundHandler,
                   methodNotAllowedHandler, panicHandler, stripTrailingSlash,
                   logger, history>>

-----------------------------------------------------------------------------
(* The Router of function-url-router/router.go *)

\* func NewRouter().  This Router has no panic handler, no strip flag and no
\* logger: the three variables keep these values.
FU_NewRouter ==
    /\ routes = <<>>
    /\ preMiddleware = <<>>
    /\ postMiddleware = <<>>
    /\ notFoundHandler = "defaultNotFoundHandler"
    /\ methodNotAllowedHandler = "defaultMethodNotAllowedHandler"
    /\ panicHandler = "none"
    /\ stripTrailingSlash = FALSE
    /\ logger = <<>>

\* AddRoute without strings.ToUpper: the method is stored as it was given.
FU_AddRouteVerbatim(method, path, handler) ==
    /\ variant = "fu"
    /\ Len(history) < MaxRoutes
    /\ routes' = StoreRoute(routes, path, method, handler)
    /\ history' = Append(history, [method |-> method, path |-> path, handler |-> handler])
    /\ UNCHANGED <<variant, preMiddleware, postMiddleware, notFoundHandler,
                   methodNotAllowedHandler, panicHandler, stripTrailingSlash,
                   logger, call>>

\* func (r *Router) AddRoute(method, path, handler)
FU_AddRoute(method, path, handler) ==
    /\ variant = "fu"
    /\ Len(history) < MaxRoutes
    /\ routes' = StoreRoute(routes, path, ToUpper(method), handler)
    /\ history' = Append(history, [method |-> method, path |-> path, handler |-> handler])
    /\ UNCHANGED <<variant, preMiddleware, postMiddleware, notFoundHandler,
                   methodNotAllowedHandler, panicHandler, stripTrailingSlash,
                   logger, call>>

\* func (r *Router) UsePre(mw)
FU_UsePre(mw, cfg) ==
    /\ variant = "fu"
    /\ Len(preMiddleware) < MaxMiddleware
    /\ preMiddleware' = Append(preMiddleware, Middleware(mw, cfg))
    /\ UNCHANGED <<variant, routes, postMiddleware, notFoundHandler,
                   methodNotAllowedHandler, panicHandler, stripTrailingSlash,
                   logger, call, history>>

\* func (r *Router) UsePost(mw)
FU_UsePost(mw, cfg) ==
    /\ variant = "fu"
    /\ Len(postMiddleware) < MaxMiddleware
    /\ postMiddleware' = Append(postMiddleware, Middleware(mw, cfg))
    /\ UNCHANGED <<variant, routes, preMiddleware, notFoundHandler,
                   methodNotAllowedHandler, panicHandler, stripTrailingSlash,
                   logger, call, history>>

\* func (r *Router) SetNotFoundHandler(handler)
FU_SetNotFoundHandler(handler) ==
    /\ variant = "fu"
    /\ notFoundHandler' = handler
    /\ UNCHANGED <<variant, routes, preMiddleware, postMiddleware,
                   methodNotAllowedHandler, panicHandler, stripTrailingSlash,
                   logger, call, history>>

\* func (r *Router) SetMethodNotAllowedHandler(handler)
FU_SetMethodNotAllowedHandler(handler) ==
    /\ variant = "fu"
    /\ methodNotAllowedHandler' = handler
    /\ UNCHANGED <<variant, routes, preMiddleware, postMiddleware,
                   notFoundHandler, panicHandler, stripTrailingSlash,
                   logger, call, history>>

\* shouldApplyMiddleware without its third loop: excluded headers are not
\* looked at.
FU_shouldApplyMiddlewareNoHeaders(mw, request) ==
    LET cfg == mw.Config IN
    IF cfg.isNil THEN TRUE
    ELSE IF request.Path \in cfg.ExcludedRoutes THEN FALSE
    ELSE IF request.Method \in cfg.ExcludedMethods THEN FALSE
    ELSE TRUE

\* func (r *Router) shouldApplyMiddleware(mw, request)
FU_shouldApplyMiddleware(mw, request) ==
    LET cfg == mw.Config IN
    IF cfg.isNil THEN TRUE
    ELSE IF request.Path \in cfg.ExcludedRoutes THEN FALSE
    ELSE IF request.Method \in cfg.ExcludedMethods THEN FALSE
    ELSE IF \E header \in DOMAIN cfg.ExcludedHeaders :
                /\ header \in DOMAIN request.Headers
                /\ request.Headers[header] = cfg.ExcludedHeaders[header]
         THEN FALSE
    ELSE TRUE

\* handleRouteRequest keeping the response and dropping the error.
FU_handleRouteRequestSwallow(request) ==
    LET found == Lookup(routes, request.Path, request.Method)
        out == Invoke(found.h, found.role, request)
    IN  [out EXCEPT !.err = "nil"]

\* func (r *Router) handleRouteRequest(ctx, request)
FU_handleRouteRequest(request) ==
    LET found == Lookup(routes, request.Path, request.Method)
    IN  Invoke(found.h, found.role, request)

\* createHandlerChain calling the rest of the chain first and Process
\* afterwards: a middleware that answers by itself no longer keeps the rest
\* from running.
RECURSIVE FU_createHandlerChainEager(_, _, _)
FU_createHandlerChainEager(middleware, final, req) ==
    IF Len(middleware) = 0 THEN final
    ELSE LET rest == FU_createHandlerChainEager(Tail(middleware), final, req)
             out == RunMiddleware(middleware[1], rest)
         IN  IF ~FU_shouldApplyMiddleware(middleware[1].mw, req) THEN rest
             ELSE IF middleware[1].mw.Func = "short"
                  THEN [out EXCEPT !.trace = rest.trace \o out.trace]
                  ELSE out

\* func (r *Router) createHandlerChain(middleware, finalHandler, request):
\* HandleRequest of the handler it returns.  `final` is the outcome of calling
\* finalHandler, which happens only when the chain reaches it.
RECURSIVE FU_createHandlerChain(_, _, _)
FU_createHandlerChain(middleware, final, req) ==
    IF Len(middleware) = 0 THEN final
    ELSE IF FU_shouldApplyMiddleware(middleware[1].mw, req)
         THEN RunMiddleware(middleware[1],
                            FU_createHandlerChain(Tail(middleware), final, req))
         ELSE FU_createHandlerChain(Tail(middleware), final, req)

\* HandleRequest building its chain by consuming the router's own slice: the
\* first pre-middleware is taken off r.preMiddleware.
FU_HandleRequest_BeginConsuming(w, req) ==
    /\ variant = "fu"
    /\ CanBegin(w)
    /\ call' = [call EXCEPT ![w] =
                  [IdleCall EXCEPT !.pc = "run", !.n = call[w].n + 1,
                                   !.req = req, !.path = req.Path,
                                   !.pre = preMiddleware, !.post = postMiddleware,
                                   !.began = InstalledHandlers]]
    /\ preMiddleware' = IF preMiddleware = <<>> THEN <<>> ELSE Tail(preMiddleware)
    /\ UNCHANGED <<variant, routes, postMiddleware, notFoundHandler,
                   methodNotAllowedHandler, panicHandler, stripTrailingSlash,
                   logger, history>>

\* HandleRequest, lines 107-108: the two chains are built over the slices the
\* router holds at this moment; nothing has run yet.
FU_HandleRequest_Begin(w, req) ==
    /\ variant = "fu"
    /\ CanBegin(w)
    /\ call' = [call EXCEPT ![w] =
                  [IdleCall EXCEPT !.pc = "run", !.n = call[w].n + 1,
                                   !.req = req, !.path = req.Path,
                                   !.pre = preMiddleware, !.post = postMiddleware,
                                   !.began = InstalledHandlers]]
    /\ UNCHANGED <<variant, routes, preMiddleware, postMiddleware, notFoundHandler,
                   methodNotAllowedHandler, panicHandler, stripTrailingSlash,
                   logger, history>>

\* HandleRequest, line 109: the post chain runs around the pre chain, which
\* runs around handleRouteRequest.  Nothing recovers a panic.
FU_HandleRequest_Run(w) ==
    /\ variant = "fu"
    /\ call[w].pc = "run"
    /\ LET c == call[w]
           handler == FU_createHandlerChain(Layers(c.pre, "pre"),
                                            FU_handleRouteRequest(c.req), c.req)
           out == FU_createHandlerChain(Layers(c.post, "post"), handler, c.req)
       IN  call' = [call EXCEPT ![w] =
                      [c EXCEPT !.pc = "done",
                                !.trace = out.trace,
                                !.resp = out.resp,
                                !.ret = out.resp,
                                !.retErr = out.err,
                                !.panicking = out.pval,
                                !.began = NoHandlers,
                                !.escaped = (out.kind = "panic")]]
    /\ UNCHANGED <<variant, routes, preMiddleware, postMiddleware, notFoundHandler,
                   methodNotAllowedHandler, panicHandler, stripTrailingSlash,
                   logger, history>>

-----------------------------------------------------------------------------
(* Specifications: each is the disjunction of the operations its properties *)
(* are about, with inputs drawn from the sets named next to it.             *)

Init ==
    /\ variant \in {"logger", "fu"}
    /\ IF variant = "logger" THEN NewRouter ELSE FU_NewRouter
    /\ call = [w \in Workers |-> IdleCall]
    /\ history = <<>>

\* No HandleRequest call is in progress: the registration calls of a
\* single-goroutine program happen in such states.
Quiet == \A w \in Workers : call[w].pc \in {"idle", "done"}

\* The steps of a HandleRequest call that has begun.
Step(w) ==
    \/ HandleRequest_Route(w)
    \/ HandleRequest_Deferred(w)
    \/ FU_HandleRequest_Run(w)

\* Routing: registrations (methods in both letter cases), the strip flag,
\* requests with and without trailing slashes; no middleware.
RoutesMethods == {MethodGet, MethodGetLower}
RoutesPaths == {PathRoot, PathA}
RoutesHandlers == {"h1", "h2"}
RoutesRequests ==
    {Request(MethodGet, PathRoot, NoHeaders),
     Request(MethodGet, PathA, NoHeaders),
     Request(MethodGetLower, PathA, NoHeaders),
     Request(MethodGet, PathASlash, NoHeaders),
     Request(MethodGet, PathASlashSlash, NoHeaders)}

\* Registration calls are made between HandleRequest calls, and at most
\* MaxServedRoutes of them are AddRoute calls.
MayAddRoute == Quiet /\ Len(history) < MaxServedRoutes

NextRoutes ==
    \/ \E m \in RoutesMethods, p \in RoutesPaths, h \in RoutesHandlers :
          MayAddRoute /\ AddRoute(m, p, h)
    \/ \E m \in RoutesMethods, p \in RoutesPaths, h \in RoutesHandlers :
          MayAddRoute /\ FU_AddRoute(m, p, h)
    \/ \E strip \in BOOLEAN : Quiet /\ SetStripTrailingSlash(strip)
    \/ \E w \in OneCaller, req \in RoutesRequests : HandleRequest_Begin(w, req)
    \/ \E w \in OneCaller, req \in RoutesRequests : FU_HandleRequest_Begin(w, req)
    \/ \E w \in OneCaller : Step(w)

SpecRoutes == Init /\ [][NextRoutes]_vars

\* Registration alone: every sequence of AddRoute calls up to MaxRoutes.
RegistrationMethods == {MethodGet, MethodGetLower, MethodPost}

NextRegistration ==
    \E m \in RegistrationMethods, p \in RoutesPaths, h \in RoutesHandlers :
        AddRoute(m, p, h) \/ FU_AddRoute(m, p, h)

SpecRegistration == Init /\ [][NextRegistration]_vars

\* Routing misses: one path registered under GET in either letter case,
\* custom not-found and method-not-allowed handlers, and pre-middleware that
\* passes through, answers by itself, or changes the response.
MissesRequests ==
    {Request(MethodGet, PathA, NoHeaders),
     Request(MethodPost, PathA, NoHeaders),
     Request(MethodGet, PathHealth, NoHeaders)}
MissesNotFound == {"nfCustom", "h2"}
MissesPre == {"pass", "short", "tag"}

\* The one route of this specification is registered once.
MayAddFirstRoute == Quiet /\ history = <<>>

NextMisses ==
    \/ \E m \in RoutesMethods : MayAddFirstRoute /\ AddRoute(m, PathA, "h1")
    \/ \E m \in RoutesMethods : MayAddFirstRoute /\ FU_AddRoute(m, PathA, "h1")
    \/ \E h \in MissesNotFound : Quiet /\ SetNotFoundHandler(h)
    \/ \E h \in MissesNotFound : Quiet /\ FU_SetNotFoundHandler(h)
    \/ Quiet /\ SetMethodNotAllowedHandler("h2")
    \/ Quiet /\ FU_SetMethodNotAllowedHandler("h2")
    \/ \E kind \in MissesPre : Quiet /\ UsePre(kind, EmptyConfig)
    \/ \E kind \in MissesPre : Quiet /\ FU_UsePre(kind, EmptyConfig)
    \/ \E w \in OneCaller, req \in MissesRequests : HandleRequest_Begin(w, req)
    \/ \E w \in OneCaller, req \in MissesRequests : FU_HandleRequest_Begin(w, req)
    \/ \E w \in OneCaller : Step(w)

SpecMisses == Init /\ [][NextMisses]_vars

\* Middleware: two registered paths, pre-middleware of every kind that
\* returns, with and without an exclusion of /health, and a post-middleware.
MiddlewareRequests ==
    {Request(MethodGet, PathA, NoHeaders),
     Request(MethodGet, PathHealth, NoHeaders)}
MiddlewarePaths == {PathA, PathHealth}
MiddlewarePre ==
    {Middleware("pass", EmptyConfig), Middleware("pass", ExcludeHealth),
     Middleware("tag", EmptyConfig), Middleware("short", EmptyConfig)}

NextMiddleware ==
    \/ \E p \in MiddlewarePaths : MayAddRoute /\ AddRoute(MethodGet, p, "h1")
    \/ \E p \in MiddlewarePaths : MayAddRoute /\ FU_AddRoute(MethodGet, p, "h1")
    \/ \E mw \in MiddlewarePre : Quiet /\ UsePre(mw.Func, mw.Config)
    \/ \E mw \in MiddlewarePre : Quiet /\ FU_UsePre(mw.Func, mw.Config)
    \/ Quiet /\ UsePost("pass", EmptyConfig)
    \/ Quiet /\ FU_UsePost("pass", EmptyConfig)
    \/ \E w \in OneCaller, req \in MiddlewareRequests : HandleRequest_Begin(w, req)
    \/ \E w \in OneCaller, req \in MiddlewareRequests : FU_HandleRequest_Begin(w, req)
    \/ \E w \in OneCaller : Step(w)

SpecMiddleware == Init /\ [][NextMiddleware]_vars

\* Panics: a route handler, a not-found handler, a pre-middleware or a
\* custom panic handler that panics.
PanicRequests ==
    {Request(MethodGet, PathA, NoHeaders),
     Request(MethodGet, PathHealth, NoHeaders)}
PanicHandlers == {"h1", "hPanic"}
PanicPanicHandlers == {"phCustom", "phPanic"}

NextPanic ==
    \/ \E h \in PanicHandlers : MayAddRoute /\ AddRoute(MethodGet, PathA, h)
    \/ \E h \in PanicHandlers : MayAddRoute /\ FU_AddRoute(MethodGet, PathA, h)
    \/ \E ph \in PanicPanicHandlers : Quiet /\ SetPanicHandler(ph)
    \/ Quiet /\ SetNotFoundHandler("hPanic")
    \/ Quiet /\ FU_SetNotFoundHandler("hPanic")
    \/ Quiet /\ UsePre("panic", EmptyConfig)
    \/ Quiet /\ FU_UsePre("panic", EmptyConfig)
    \/ \E w \in OneCaller, req \in PanicRequests : HandleRequest_Begin(w, req)
    \/ \E w \in OneCaller, req \in PanicRequests : FU_HandleRequest_Begin(w, req)
    \/ \E w \in OneCaller : Step(w)

SpecPanic == Init /\ [][NextPanic]_vars

\* Concurrent serving: the router is configured first (routes whose handler
\* returns or panics, a custom panic handler that returns or panics, a
\* pre-middleware that changes the response); from the first HandleRequest
\* call on, no registration call is made and both goroutines dispatch, their
\* steps interleaved in every order.
Configuring == \A w \in Workers : call[w].n = 0 /\ call[w].pc = "idle"
ConfiguringRoutes == Configuring /\ Len(history) < MaxServedRoutes

NextConcurrent ==
    \/ \E h \in PanicHandlers : ConfiguringRoutes /\ AddRoute(MethodGet, PathA, h)
    \/ \E h \in PanicHandlers : ConfiguringRoutes /\ FU_AddRoute(MethodGet, PathA, h)
    \/ \E ph \in PanicPanicHandlers : Configuring /\ SetPanicHandler(ph)
    \/ Configuring /\ UsePre("tag", EmptyConfig)
    \/ Configuring /\ FU_UsePre("tag", EmptyConfig)
    \/ \E w \in Workers, req \in PanicRequests : HandleRequest_Begin(w, req)
    \/ \E w \in Workers, req \in PanicRequests : FU_HandleRequest_Begin(w, req)
    \/ \E w \in Workers : Step(w)

SpecConcurrent == Init /\ [][NextConcurrent]_vars

\* Setters called at any moment, also while a HandleRequest call is between
\* two of its steps: a route whose handler panics, and requests that end in
\* the panic handler, the method-not-allowed handler and the not-found
\* handler.
SettersRequests ==
    {Request(MethodGet, PathA, NoHeaders),
     Request(MethodPost, PathA, NoHeaders),
     Request(MethodGet, PathHealth, NoHeaders)}

NextSetters ==
    \/ MayAddRoute /\ AddRoute(MethodGet, PathA, "hPanic")
    \/ MayAddRoute /\ FU_AddRoute(MethodGet, PathA, "h1")
    \/ SetNotFoundHandler("nfCustom")
    \/ FU_SetNotFoundHandler("nfCustom")
    \/ SetMethodNotAllowedHandler("h2")
    \/ FU_SetMethodNotAllowedHandler("h2")
    \/ SetPanicHandler("phCustom")
    \/ \E w \in OneCaller, req \in SettersRequests : HandleRequest_Begin(w, req)
    \/ \E w \in OneCaller, req \in SettersRequests : FU_HandleRequest_Begin(w, req)
    \/ \E w \in OneCaller : Step(w)

SpecSetters == Init /\ [][NextSetters]_vars

\* Errors in router.go: a route whose handler returns a response with a
\* non-nil error, behind pre-middleware that passes through, changes the
\* response or answers by itself, and a post-middleware.
ErrorsHandlers == {"h1", "hErr"}
ErrorsPre == {"pass", "tag", "short"}

NextErrors ==
    \/ \E h \in ErrorsHandlers : MayAddRoute /\ FU_AddRoute(MethodGet, PathA, h)
    \/ \E kind \in ErrorsPre : Quiet /\ FU_UsePre(kind, EmptyConfig)
    \/ Quiet /\ FU_UsePost("pass", NilConfig)
    \/ \E w \in OneCaller, req \in PanicRequests : FU_HandleRequest_Begin(w, req)
    \/ \E w \in OneCaller : FU_HandleRequest_Run(w)

SpecErrors == Init /\ [][NextErrors]_vars

\* The local bridge: HTTP requests for /echo with bodies that are compact
\* JSON, JSON with white space and a fraction, and broken JSON, with and
\* without a header, to a logger router whose /echo route echoes or panics.
BridgeMethods == {MethodPost, MethodGet}
BridgeHeaders == {NoHeaders, [h \in {"Content-Type"} |-> "application/json"]}
BridgeBodies == {BodyA1, BodyA1Spaced, BodyBroken}
BridgeHandlers == {"echoHandler", "hPanic"}
BridgeRequests ==
    {HTTPRequest(m, PathEcho, hd, body) :
        m \in BridgeMethods, hd \in BridgeHeaders, body \in BridgeBodies}

NextBridge ==
    \/ \E h \in BridgeHandlers :
          (\A w \in OneCaller : Answered(w)) /\ MayAddRoute /\ AddRoute(MethodPost, PathEcho, h)
    \/ \E w \in OneCaller, r \in BridgeRequests : LambdaAdapter_ServeHTTP(w, r)
    \/ \E w \in OneCaller : HandleRequest_Route(w)
    \/ \E w \in OneCaller : HandleRequest_Deferred(w)
    \/ \E w \in OneCaller : RunLocalServer_Reply(w)

SpecBridge == Init /\ [][NextBridge]_vars

\* Exclusion in router.go: the router is configured before the first
\* request with middleware whose config is nil or excludes a path, a method
\* or a header value; requests differ in path, method and header.
ExclusionRequests ==
    {Request(MethodGet, PathA, NoHeaders),
     Request(MethodPost, PathA, NoHeaders),
     Request(MethodGet, PathHealth, NoHeaders),
     Request(MethodGet, PathA, SkipHeader),
     Request(MethodGet, PathA, [h \in {"X-Skip-Logging"} |-> "false"])}
ExclusionPre ==
    {Middleware("pass", NilConfig), Middleware("pass", ExcludeHealth),
     Middleware("pass", ExcludeSkipHeader), Middleware("pass", ExcludePost),
     Middleware("short", ExcludeHealth)}
ExclusionPost ==
    {Middleware("tag", ExcludePost), Middleware("short", ExcludeSkipHeader)}

NextExclusion ==
    \/ ConfiguringRoutes /\ FU_AddRoute(MethodGet, PathA, "h1")
    \/ \E mw \in ExclusionPre : Configuring /\ FU_UsePre(mw.Func, mw.Config)
    \/ \E mw \in ExclusionPost : Configuring /\ FU_UsePost(mw.Func, mw.Config)
    \/ \E w \in OneCaller, req \in ExclusionRequests : FU_HandleRequest_Begin(w, req)
    \/ \E w \in OneCaller : FU_HandleRequest_Run(w)

SpecExclusion == Init /\ [][NextExclusion]_vars

\* Short circuits: both routers are configured before the first request
\* with one route and with pre- and post-middleware that pass through,
\* change the response, or answer by themselves; requests hit and miss.
ShortCircuitPre == {"pass", "tag", "short"}
ShortCircuitPost == {"pass", "short"}

NextShortCircuit ==
    \/ ConfiguringRoutes /\ AddRoute(MethodGet, PathA, "h1")
    \/ ConfiguringRoutes /\ FU_AddRoute(MethodGet, PathA, "h1")
    \/ \E kind \in ShortCircuitPre : Configuring /\ UsePre(kind, EmptyConfig)
    \/ \E kind \in ShortCircuitPre : Configuring /\ FU_UsePre(kind, EmptyConfig)
    \/ \E kind \in ShortCircuitPost : Configuring /\ UsePost(kind, EmptyConfig)
    \/ \E kind \in ShortCircuitPost : Configuring /\ FU_UsePost(kind, EmptyConfig)
    \/ \E w \in OneCaller, req \in PanicRequests : HandleRequest_Begin(w, req)
    \/ \E w \in OneCaller, req \in PanicRequests : FU_HandleRequest_Begin(w, req)
    \/ \E w \in OneCaller : Step(w)

SpecShortCircuit == Init /\ [][NextShortCircuit]_vars

\* Letter case in router.go: registrations of one path under GET and get,
\* requests with the method in either case, and a pre-middleware that
\* passes through or answers by itself.
CaseRequests ==
    {Request(MethodGet, PathA, NoHeaders),
     Request(MethodGetLower, PathA, NoHeaders),
     Request(MethodGetLower, PathHealth, NoHeaders)}
CasePre == {"pass", "short"}

NextCase ==
    \/ \E m \in RoutesMethods, h \in RoutesHandlers :
          MayAddRoute /\ FU_AddRoute(m, PathA, h)
    \/ \E kind \in CasePre : Quiet /\ FU_UsePre(kind, NilConfig)
    \/ \E w \in OneCaller, req \in CaseRequests : FU_HandleRequest_Begin(w, req)
    \/ \E w \in OneCaller : FU_HandleRequest_Run(w)

SpecCase == Init /\ [][NextCase]_vars

-----------------------------------------------------------------------------
(* Vocabulary of the properties *)

\* The step in which worker w's HandleRequest call ends; call'[w] then holds
\* what the caller observes, and the unprimed router fields are the ones the
\* call ran with (registration happens between calls).
Completes(w) == call[w].pc # "done" /\ call'[w].pc = "done"

\* The handlers (route, not-found, method-not-allowed) a trace called.
HandlerEvents(trace) ==
    SelectSeq(trace, LAMBDA e : e.ev \in {"handler", "notFound", "methodNotAllowed"})

\* The key under which the variant stores a registered method.
StoredMethod(method) == IF variant = "logger" THEN method ELSE ToUpper(method)

\* The last AddRoute call, among the first n, stored under (path, key).
RECURSIVE LastAddRoute(_, _, _)
LastAddRoute(n, path, key) ==
    IF n = 0 THEN [method |-> <<>>, path |-> <<>>, handler |-> "none"]
    ELSE IF history[n].path = path /\ StoredMethod(history[n].method) = key
         THEN history[n]
         ELSE LastAddRoute(n - 1, path, key)

\* The last AddRoute call whose arguments were exactly (method, path).
RECURSIVE LastAddRouteVerbatim(_, _, _)
LastAddRouteVerbatim(n, path, method) ==
    IF n = 0 THEN [method |-> <<>>, path |-> <<>>, handler |-> "none"]
    ELSE IF history[n].path = path /\ history[n].method = method
         THEN history[n]
         ELSE LastAddRouteVerbatim(n - 1, path, method)

NoMiddleware == preMiddleware = <<>> /\ postMiddleware = <<>>

-----------------------------------------------------------------------------
(* C1 *)

\* C1 as stated: with no middleware registered, a request whose method and
\* (normalized) path equal the arguments of some AddRoute call invokes exactly
\* once the handler last registered for that pair, and no other route handler
\* and no not-found or method-not-allowed handler.
C1_AsStated ==
    [][\A w \in Workers :
          (Completes(w) /\ NoMiddleware) =>
              LET c == call'[w]
                  reg == LastAddRouteVerbatim(Len(history), c.path, c.req.Method)
              IN  reg.handler # "none" =>
                     HandlerEvents(c.trace) = <<Event("handler", reg.handler, 0)>>]_vars

\* C1, amended: with no middleware registered, a request whose (normalized)
\* path equals a registered path and whose method equals the method under
\* which the route is stored (the registered method in the logger variant, the
\* upper-cased registered method in router.go) invokes exactly once the
\* handler last registered for that entry, and no other handler.
C1_MatchedRouteInvoked ==
    [][\A w \in Workers :
          (Completes(w) /\ NoMiddleware) =>
              LET c == call'[w]
                  reg == LastAddRoute(Len(history), c.path, c.req.Method)
              IN  reg.handler # "none" =>
                     HandlerEvents(c.trace) = <<Event("handler", reg.handler, 0)>>]_vars

\* A finished call of router.go for a route registered with a lower-case
\* method and then re-registered: the request's upper-case method reached the
\* handler of the second registration.
C1_Witness ==
    \E w \in Workers :
        /\ call[w].pc = "done"
        /\ variant = "fu"
        /\ NoMiddleware
        /\ Len(history) = 2
        /\ history[1].method = MethodGetLower
        /\ history[1].path = call[w].path
        /\ history[2].path = call[w].path
        /\ history[1].handler # history[2].handler
        /\ call[w].req.Method = MethodGet
        /\ call[w].trace = <<Event("handler", history[2].handler, 0)>>

-----------------------------------------------------------------------------
(* C9 *)

\* The (path, key) entries of the route table.
HasRoute(path, key) == path \in DOMAIN routes /\ key \in DOMAIN routes[path]

\* C9 as stated: after any sequence of AddRoute calls the table holds, for
\* every (path, method) pair that was registered, the handler passed to the
\* last AddRoute call for that pair, and holds nothing else.
C9_AsStated ==
    /\ \A i \in 1..Len(history) :
          LET e == history[i] IN
          /\ HasRoute(e.path, e.method)
          /\ routes[e.path][e.method] =
                LastAddRouteVerbatim(Len(history), e.path, e.method).handler
    /\ \A p \in DOMAIN routes : \A m \in DOMAIN routes[p] :
          \E i \in 1..Len(history) : history[i].path = p /\ history[i].method = m

\* C9, amended: the route table holds at most one handler per (path, stored
\* method) pair, where the stored method is the registered method in the
\* logger variant and the upper-cased registered method in router.go; that
\* handler is the one passed to the last AddRoute call stored under the pair,
\* so a later registration replaces an earlier one and leaves every other
\* entry as it was; the table holds no entry that was not registered.
C9_LastRegistrationWins ==
    /\ \A i \in 1..Len(history) :
          LET e == history[i]
              key == StoredMethod(e.method)
          IN  /\ HasRoute(e.path, key)
              /\ routes[e.path][key] = LastAddRoute(Len(history), e.path, key).handler
    /\ \A p \in DOMAIN routes : \A m \in DOMAIN routes[p] :
          \E i \in 1..Len(history) :
              history[i].path = p /\ StoredMethod(history[i].method) = m

\* A pair was registered twice with different handlers while another entry of
\* the same path exists: the table holds the second handler and the other
\* entry.
C9_Witness ==
    /\ Len(history) = 3
    /\ history[1].path = history[2].path
    /\ history[3].path = history[2].path
    /\ StoredMethod(history[1].method) # StoredMethod(history[2].method)
    /\ StoredMethod(history[3].method) = StoredMethod(history[2].method)
    /\ history[3].handler # history[2].handler
    /\ routes[history[3].path][StoredMethod(history[3].method)] = history[3].handler
    /\ routes[history[1].path][StoredMethod(history[1].method)] = history[1].handler

-----------------------------------------------------------------------------
(* C4 *)

\* The normalization the specification describes: one trailing slash is
\* stripped, and the root path stays "/".
StripOneTrailingSlash(path) ==
    IF Len(path) > 1 /\ path[Len(path)] = Slash
    THEN SubSeq(path, 1, Len(path) - 1)
    ELSE path

\* C4: in the logger variant with stripping enabled, the path that is looked
\* up is the request path with exactly one trailing slash stripped, the root
\* path being left as "/"; so a request for "/" reaches a handler registered
\* at "/", and "/a//" is looked up as "/a/".
C4_StripsOneSlash ==
    [][\A w \in Workers :
          (variant = "logger" /\ stripTrailingSlash
             /\ call[w].pc = "route" /\ call'[w].pc = "deferred") =>
              /\ call'[w].path = StripOneTrailingSlash(call[w].req.Path)
              /\ (call[w].req.Path = PathRoot /\ HasRoute(PathRoot, call[w].req.Method)) =>
                    call'[w].trace =
                        <<Event("handler", routes[PathRoot][call[w].req.Method], 0)>>]_vars

-----------------------------------------------------------------------------
(* C7, C8 *)

\* Some AddRoute call registered `path`.
PathRegistered(path) == \E i \in 1..Len(history) : history[i].path = path

\* The exclusion rule of a middleware configuration, read against a request.
Excluded(mw, req) ==
    /\ ~mw.Config.isNil
    /\ \/ req.Path \in mw.Config.ExcludedRoutes
       \/ req.Method \in mw.Config.ExcludedMethods
       \/ \E h \in DOMAIN mw.Config.ExcludedHeaders :
             h \in DOMAIN req.Headers /\ req.Headers[h] = mw.Config.ExcludedHeaders[h]

\* Every middleware that runs for the request calls next and returns its
\* result unchanged.
AllPassThrough(req) ==
    /\ \A i \in 1..Len(preMiddleware) :
          Excluded(preMiddleware[i], req) \/ preMiddleware[i].Func = "pass"
    /\ \A i \in 1..Len(postMiddleware) :
          Excluded(postMiddleware[i], req) \/ postMiddleware[i].Func = "pass"

\* What a call that ended in the terminal handler h, in the role `role`,
\* returned: the response of h, with status `code` when h is the default.
EndsIn(c, role, h, default, code) ==
    /\ ~c.escaped
    /\ HandlerEvents(c.trace) = <<Event(role, h, 0)>>
    /\ c.ret.Body = (IF h = default
                     THEN (IF role = "notFound" THEN "Not Found" ELSE "Method Not Allowed")
                     ELSE h)
    /\ h = default => c.ret.StatusCode = code
    /\ h = "nfCustom" => c.ret.StatusCode = StatusNotFound
    /\ h = "h2" => c.ret.StatusCode = StatusCreated
    /\ c.ret.Headers = (IF h = default /\ variant = "logger" THEN {"Content-Type"} ELSE {})

\* C7 as stated: in both variants a request for a path with no registered
\* route returns the not-found response, 404 by default and otherwise the
\* response of the handler last passed to SetNotFoundHandler, and no route
\* handler is invoked.
C7_AsStated ==
    [][\A w \in Workers :
          (Completes(w) /\ ~PathRegistered(call'[w].path)) =>
              EndsIn(call'[w], "notFound", notFoundHandler,
                     "defaultNotFoundHandler", StatusNotFound)]_vars

\* C7, amended: a request for a path with no registered route invokes the
\* not-found handler and no route handler; the logger variant returns that
\* handler's response (404 by default) whatever middleware is registered,
\* router.go returns it when every middleware that runs for the request calls
\* next and returns its result unchanged, because there the middleware chain
\* is wrapped around the not-found handler too.
C7_NotFound ==
    [][\A w \in Workers :
          (/\ Completes(w)
           /\ ~PathRegistered(call'[w].path)
           /\ variant = "fu" => AllPassThrough(call'[w].req)) =>
              EndsIn(call'[w], "notFound", notFoundHandler,
                     "defaultNotFoundHandler", StatusNotFound)]_vars

\* router.go served an unregistered path through a pre-middleware that ran,
\* after the not-found handler was set twice: the second handler answered.
C7_Witness ==
    \E w \in Workers :
        /\ variant = "fu"
        /\ call[w].pc = "done"
        /\ ~PathRegistered(call[w].path)
        /\ notFoundHandler = "h2"
        /\ call[w].trace = <<Event("before", "pre", 1), Event("notFound", "h2", 0),
                             Event("after", "pre", 1)>>
        /\ call[w].ret = Response(StatusCreated, "h2")

\* C8 as stated: in both variants a request for a path that has a registered
\* method, but not the request's method, returns the method-not-allowed
\* response (405 by default), and no route handler is invoked.
C8_AsStated ==
    [][\A w \in Workers :
          (/\ Completes(w)
           /\ PathRegistered(call'[w].path)
           /\ LastAddRouteVerbatim(Len(history), call'[w].path,
                                   call'[w].req.Method).handler = "none") =>
              EndsIn(call'[w], "methodNotAllowed", methodNotAllowedHandler,
                     "defaultMethodNotAllowedHandler", StatusMethodNotAllowed)]_vars

\* C8, amended: a request for a registered path whose method is not one the
\* path's routes are stored under (the registered methods in the logger
\* variant, their upper-cased forms in router.go) invokes the
\* method-not-allowed handler and no route handler and no not-found handler;
\* the logger variant returns that handler's response (405 by default),
\* router.go returns it when every middleware that runs for the request calls
\* next and returns its result unchanged.
C8_MethodNotAllowed ==
    [][\A w \in Workers :
          (/\ Completes(w)
           /\ PathRegistered(call'[w].path)
           /\ LastAddRoute(Len(history), call'[w].path,
                           call'[w].req.Method).handler = "none"
           /\ variant = "fu" => AllPassThrough(call'[w].req)) =>
              EndsIn(call'[w], "methodNotAllowed", methodNotAllowedHandler,
                     "defaultMethodNotAllowedHandler", StatusMethodNotAllowed)]_vars

\* A POST to a path registered under GET only ended with the default 405 and
\* ran no route handler.
C8_Witness ==
    \E w \in Workers :
        /\ call[w].pc = "done"
        /\ call[w].req.Method = MethodPost
        /\ PathRegistered(call[w].path)
        /\ call[w].ret.StatusCode = StatusMethodNotAllowed
        /\ HandlerEvents(call[w].trace) =
              <<Event("methodNotAllowed", "defaultMethodNotAllowedHandler", 0)>>

-----------------------------------------------------------------------------
(* C6 *)

CallsNext(mw) == mw.Func \in {"pass", "tag"}

\* Before-next logic of pre[1..n] in list order, the route handler h, then
\* after-next logic of pre[n..1].
Nested(n, h) ==
    [i \in 1..(2 * n + 1) |->
        IF i <= n THEN Event("before", "pre", i)
        ELSE IF i = n + 1 THEN Event("handler", h, 0)
        ELSE Event("after", "pre", 2 * n + 2 - i)]

\* The pre-middleware logic and route handlers a trace ran.
PreAndHandler(trace) ==
    SelectSeq(trace, LAMBDA e : e.who = "pre" \/ e.ev = "handler")

\* C6: in both variants, for a matched route whose handler returns, with
\* pre-middleware none of which is excluded for the request and all of which
\* call next (and post-middleware that call next), one dispatch runs the
\* before-next logic of pre[1], ..., pre[n] in this order, then the route
\* handler, then the after-next logic of pre[n], ..., pre[1].
C6_PreNesting ==
    [][\A w \in Workers :
          LET c == call'[w]
              reg == LastAddRoute(Len(history), c.path, c.req.Method)
          IN  (/\ Completes(w)
               /\ reg.handler \in {"h1", "h2"}
               /\ \A i \in 1..Len(preMiddleware) :
                     ~Excluded(preMiddleware[i], c.req) /\ CallsNext(preMiddleware[i])
               /\ \A j \in 1..Len(postMiddleware) : CallsNext(postMiddleware[j])) =>
                  PreAndHandler(c.trace) = Nested(Len(preMiddleware), reg.handler)]_vars

\* A dispatch through two pre-middleware and a post-middleware ran them
\* nested around the handler.
C6_Witness ==
    \E w \in Workers :
        /\ call[w].pc = "done"
        /\ Len(preMiddleware) = 2
        /\ Len(postMiddleware) >= 1
        /\ PreAndHandler(call[w].trace) = Nested(2, "h1")
        /\ Len(call[w].trace) = 7

-----------------------------------------------------------------------------
(* C3 *)

Ran(trace, list, i) ==
    \E k \in 1..Len(trace) : trace[k] = Event("before", list, i)

\* C3: in the logger variant, the first pre-middleware, registered with a
\* config that excludes /health, does not run when a request for the
\* registered path /health is dispatched, and runs for a request to any other
\* registered path.
C3_ExcludedDoesNotRun ==
    [][\A w \in Workers :
          LET c == call'[w]
              reg == LastAddRoute(Len(history), c.path, c.req.Method)
          IN  (/\ Completes(w)
               /\ variant = "logger"
               /\ reg.handler # "none"
               /\ Len(preMiddleware) >= 1
               /\ preMiddleware[1].Config = ExcludeHealth) =>
                  (Ran(c.trace, "pre", 1) <=> c.path # PathHealth)]_vars

-----------------------------------------------------------------------------
(* C2, C5, C10 *)

\* C2: in the logger variant, when the matched route handler panics, the
\* Response HandleRequest returns has a 500-class status (500 with the default
\* panic handler), a completion entry carrying the panic description is
\* written, and the router is left as it was, so that a following call is
\* served as if the panic had not happened.
C2_PanicGives500 ==
    [][\A w \in Workers :
          LET c == call'[w] IN
          (/\ Completes(w)
           /\ variant = "logger"
           /\ \E k \in 1..Len(c.trace) : c.trace[k] = Event("handler", "hPanic", 0)) =>
              /\ c.ret.StatusCode \in 500..599
              /\ panicHandler = "defaultPanicHandler" =>
                    c.ret.StatusCode = StatusInternalServerError
              /\ Len(logger') = Len(logger) + 1
              /\ logger'[Len(logger')].err = "hPanic"
              /\ UNCHANGED config]_vars

\* C5: no panic, in whatever stage it is raised, leaves HandleRequest: every
\* call returns a well-formed Response to its caller.
C5_NoPanicEscapes ==
    \A w \in Workers :
        call[w].pc = "done" =>
            /\ ~call[w].escaped
            /\ call[w].ret.StatusCode \in 100..599

\* C10: in the logger variant every HandleRequest call writes exactly one
\* completion entry, on whichever path it ends, and turns a panic into a
\* response at most once.
C10_OneLogEntry ==
    [][\A w \in Workers :
          (Completes(w) /\ variant = "logger") =>
              /\ Len(logger') = Len(logger) + 1
              /\ call'[w].logged = 1
              /\ call'[w].recovered <= 1]_vars

-----------------------------------------------------------------------------
(* C11 *)

\* C11: in the logger variant, with a route registered at /a and none at
\* /a/, a request for /a/ with the route's method invokes the route's
\* handler and returns its response when trailing-slash stripping is enabled,
\* and ends in the not-found handler, without any route handler, when
\* stripping is disabled.
C11_StripToggle ==
    [][\A w \in Workers :
          LET c == call'[w]
              reg == LastAddRoute(Len(history), PathA, c.req.Method)
          IN  (/\ Completes(w)
               /\ variant = "logger"
               /\ c.req.Path = PathASlash
               /\ reg.handler # "none"
               /\ ~PathRegistered(PathASlash)) =>
                  IF stripTrailingSlash
                  THEN /\ c.trace = <<Event("handler", reg.handler, 0)>>
                       /\ c.ret.Body = reg.handler
                       /\ c.ret.StatusCode \in {StatusOK, StatusCreated}
                  ELSE EndsIn(c, "notFound", notFoundHandler,
                              "defaultNotFoundHandler", StatusNotFound)]_vars

\* The same request for /a/ was served twice by a router holding one route,
\* at /a: with stripping enabled it reached the handler (200), and after
\* SetStripTrailingSlash(false) it ended in the not-found handler (404).
C11_Witness ==
    \E w \in Workers :
        /\ variant = "logger"
        /\ call[w].pc = "done"
        /\ ~stripTrailingSlash
        /\ Len(history) = 1
        /\ history[1].path = PathA
        /\ history[1].handler = "h1"
        /\ Len(logger) = 2
        /\ logger[1].Path = PathASlash /\ logger[1].StatusCode = StatusOK
        /\ logger[2].Path = PathASlash /\ logger[2].StatusCode = StatusNotFound
        /\ call[w].trace = <<Event("notFound", "defaultNotFoundHandler", 0)>>

-----------------------------------------------------------------------------
(* C12 *)

\* What HandleRequest(req) hands to its caller when it runs from beginning
\* to end on the router as it is now, with nothing else running.
DispatchAlone(req) ==
    IF variant = "logger"
    THEN LET found == Lookup(routes, NormalizePath(req.Path), req.Method)
             out == IF found.role = "handler"
                    THEN ServeWrapped(applyMiddleware(preMiddleware, postMiddleware),
                                      Invoke(found.h, "handler", req))
                    ELSE Invoke(found.h, found.role, req)
         IN  IF out.kind = "resp"
             THEN [ret |-> out.resp, retErr |-> "nil", escaped |-> FALSE]
             ELSE [ret |-> ZeroResponse, retErr |-> "nil",
                   escaped |-> InvokePanicHandler(panicHandler).kind = "panic"]
    ELSE LET found == Lookup(routes, req.Path, req.Method)
             core == FU_createHandlerChain(Layers(preMiddleware, "pre"),
                                           Invoke(found.h, found.role, req), req)
             out == FU_createHandlerChain(Layers(postMiddleware, "post"), core, req)
         IN  [ret |-> out.resp, retErr |-> out.err, escaped |-> out.kind = "panic"]

\* C12: while both goroutines dispatch and no registration call is made, no
\* step of a HandleRequest call changes the route table, the middleware
\* lists, the terminal handlers or the strip flag, and every call ends with
\* the result the same request gets when it is dispatched alone, whatever the
\* other goroutine is doing and whatever panicked before.
C12_Isolation ==
    [][\A w \in Workers :
          call'[w] # call[w] =>
              /\ UNCHANGED config
              /\ Completes(w) =>
                    LET c == call'[w]
                        alone == DispatchAlone(c.req)
                    IN  /\ c.ret = alone.ret
                        /\ c.retErr = alone.retErr
                        /\ c.escaped = alone.escaped]_vars

\* Two dispatches in flight at once on the logger router: one is unwinding
\* from a panic of its route handler, the other, begun after an earlier call
\* of the same goroutine, has its not-found response in hand.
C12_Witness ==
    /\ variant = "logger"
    /\ call[1].pc = "deferred"
    /\ call[1].panicking = "hPanic"
    /\ call[2].pc = "deferred"
    /\ call[2].n = 2
    /\ call[2].resp.StatusCode = StatusNotFound
    /\ Len(logger) >= 1

-----------------------------------------------------------------------------
(* C13 *)

\* C13: a HandleRequest call ends with the terminal handlers that were
\* installed when it began: the not-found, method-not-allowed or panic
\* handler it calls is the one the router held at its first step, also when a
\* setter ran between its steps; so a setter takes effect for the calls that
\* begin after it and for no call that is in flight.
C13_InFlightKeepsHandler ==
    [][\A w \in Workers :
          Completes(w) =>
              LET installed == call[w].began
                  trace == call'[w].trace
              IN  \A k \in 1..Len(trace) :
                     /\ trace[k].ev = "notFound" => trace[k].who = installed.notFound
                     /\ trace[k].ev = "methodNotAllowed" =>
                           trace[k].who = installed.methodNotAllowed
                     /\ trace[k].ev = "panicHandler" => trace[k].who = installed.panic]_vars

-----------------------------------------------------------------------------
(* C14 *)

\* C14: in router.go, when the matched route handler returns a response
\* together with a non-nil error and every middleware that runs calls next
\* and returns its result unchanged, HandleRequest returns to its caller
\* exactly that response and exactly that error.
C14_ErrorPassesThrough ==
    [][\A w \in Workers :
          LET c == call'[w]
              reg == LastAddRoute(Len(history), c.path, c.req.Method)
          IN  (/\ Completes(w)
               /\ variant = "fu"
               /\ reg.handler = "hErr"
               /\ AllPassThrough(c.req)) =>
                  /\ ~c.escaped
                  /\ c.ret = Response(StatusInternalServerError, "hErr")
                  /\ c.retErr = "boom"]_vars

\* A call of router.go went through a pre- and a post-middleware to a handler
\* that returned an error, and the caller received the error.
C14_Witness ==
    \E w \in Workers :
        /\ variant = "fu"
        /\ call[w].pc = "done"
        /\ call[w].trace = <<Event("before", "post", 1), Event("before", "pre", 1),
                             Event("handler", "hErr", 0),
                             Event("after", "pre", 1), Event("after", "post", 1)>>
        /\ call[w].retErr = "boom"
        /\ call[w].ret.StatusCode = StatusInternalServerError

-----------------------------------------------------------------------------
(* C15 *)

\* The reply step of the local server for the exchange the claim is about:
\* POST /echo with body {"a":1}, the echo handler being the handler of
\* POST /echo, no middleware.
EchoExchange(w) ==
    /\ call[w].pc = "done"
    /\ ~Answered(w)
    /\ call'[w].reply # call[w].reply
    /\ call[w].http.Method = MethodPost
    /\ call[w].http.URLPath = PathEcho
    /\ call[w].http.Body = BodyA1
    /\ HasRoute(PathEcho, MethodPost)
    /\ routes[PathEcho][MethodPost] = "echoHandler"
    /\ NoMiddleware

\* The Request the router received has the method, path and body of the HTTP
\* request, and the call ran the echo handler and nothing else.
CarriedUnchanged(c) ==
    /\ c.req.Method = c.http.Method
    /\ c.req.Path = c.http.URLPath
    /\ c.req.Body = c.http.Body
    /\ c.trace = <<Event("handler", "echoHandler", 0)>>

\* C15 as stated: the reply to POST /echo with body {"a":1} has status 200
\* and a body equal to the request body, and the adapter carried method, path
\* and body into the Request unchanged.
C15_AsStated ==
    [][\A w \in Workers :
          EchoExchange(w) =>
              /\ call'[w].reply.written
              /\ call'[w].reply.StatusCode = StatusOK
              /\ call'[w].reply.Body = call[w].http.Body
              /\ CarriedUnchanged(call[w])]_vars

\* C15, amended: the reply to POST /echo with body {"a":1} has status 200
\* and its body is the request body followed by one line feed, {"a":1}\n,
\* which is what json.Encoder.Encode writes for the decoded value; the
\* adapter carried method, path and body into the Request unchanged and the
\* router ran the echo handler only.
C15_RoundTrip ==
    [][\A w \in Workers :
          EchoExchange(w) =>
              /\ call'[w].reply.written
              /\ call'[w].reply.StatusCode = StatusOK
              /\ call'[w].reply.Body = call[w].http.Body \o <<"\n">>
              /\ CarriedUnchanged(call[w])]_vars

\* The local server answered POST /echo with body {"a":1}, sent with a
\* Content-Type header, with status 200 and the body {"a":1}\n.
C15_Witness ==
    \E w \in Workers :
        /\ variant = "logger"
        /\ call[w].http = HTTPRequest(MethodPost, PathEcho,
                                      [h \in {"Content-Type"} |-> "application/json"], BodyA1)
        /\ call[w].req.Headers = [h \in {"content-type"} |-> "application/json"]
        /\ call[w].reply.written
        /\ call[w].reply.StatusCode = StatusOK
        /\ call[w].reply.Body = <<"{", "\"a\"", ":", "1", "}", "\n">>

-----------------------------------------------------------------------------
(* C16 *)

\* The entries of `list` before position i that are not excluded for the
\* request all call next: the chain gets as far as entry i.
PassesUpTo(list, i, req) ==
    \A j \in 1..(i - 1) : Excluded(list[j], req) \/ CallsNext(list[j])

\* The chain of router.go gets as far as entry i of the post list, of the
\* pre list, and as far as route dispatch.
ReachesPost(i, req) == PassesUpTo(postMiddleware, i, req)
ReachesPre(i, req) ==
    /\ PassesUpTo(postMiddleware, Len(postMiddleware) + 1, req)
    /\ PassesUpTo(preMiddleware, i, req)
ReachesDispatch(req) == ReachesPre(Len(preMiddleware) + 1, req)

\* C16: in router.go, for every request and every middleware separately, a
\* middleware the chain gets to runs exactly when its config is nil or none
\* of the three exclusions (path, method, header name with its value)
\* matches the request; a middleware that is skipped does not run and the
\* chain goes on behind it, so that route dispatch happens whenever every
\* middleware that does run calls next.
C16_ExclusionRule ==
    [][\A w \in Workers :
          LET c == call'[w] IN
          (Completes(w) /\ variant = "fu") =>
              /\ \A i \in 1..Len(preMiddleware) :
                    Ran(c.trace, "pre", i) <=>
                        (ReachesPre(i, c.req) /\ ~Excluded(preMiddleware[i], c.req))
              /\ \A i \in 1..Len(postMiddleware) :
                    Ran(c.trace, "post", i) <=>
                        (ReachesPost(i, c.req) /\ ~Excluded(postMiddleware[i], c.req))
              /\ (HandlerEvents(c.trace) # <<>>) <=> ReachesDispatch(c.req)]_vars

\* One request, carrying X-Skip-Logging: true, for a router whose first
\* pre-middleware excludes that header value and whose second excludes
\* /health: the first was skipped, the second ran, the handler ran.
C16_Witness ==
    \E w \in Workers :
        /\ variant = "fu"
        /\ call[w].pc = "done"
        /\ call[w].req = Request(MethodGet, PathA, SkipHeader)
        /\ Len(preMiddleware) = 2
        /\ preMiddleware[1] = Middleware("pass", ExcludeSkipHeader)
        /\ preMiddleware[2] = Middleware("pass", ExcludeHealth)
        /\ call[w].trace = <<Event("before", "pre", 2), Event("handler", "h1", 0),
                             Event("after", "pre", 2)>>

-----------------------------------------------------------------------------
(* C17 *)

\* The position of an event in a trace that holds it.
Pos(trace, e) == CHOOSE k \in 1..Len(trace) : trace[k] = e

\* No middleware of either list is excluded for the request and all of them
\* call next.
AllRunAndCallNext(req) ==
    /\ \A i \in 1..Len(preMiddleware) :
          ~Excluded(preMiddleware[i], req) /\ CallsNext(preMiddleware[i])
    /\ \A j \in 1..Len(postMiddleware) :
          ~Excluded(postMiddleware[j], req) /\ CallsNext(postMiddleware[j])

\* C17: in router.go, when no middleware is excluded and all call next, the
\* chain is entered at pre[1], the outermost layer; the before-next logic of
\* pre[1], ..., pre[n] runs in this order and before the before-next logic of
\* any post-middleware; the post-middleware are ordered post[1], ..., post[m]
\* and their after-next logic runs after route dispatch.
C17_ChainOrder ==
    [][\A w \in Workers :
          LET c == call'[w]
              t == c.trace
              n == Len(preMiddleware)
              m == Len(postMiddleware)
          IN  (Completes(w) /\ variant = "fu" /\ AllRunAndCallNext(c.req)) =>
                  /\ n >= 1 => t[1] = Event("before", "pre", 1)
                  /\ \A i \in 1..n, j \in 1..n :
                        i < j => Pos(t, Event("before", "pre", i))
                                   < Pos(t, Event("before", "pre", j))
                  /\ \A i \in 1..n, j \in 1..m :
                        Pos(t, Event("before", "pre", i))
                          < Pos(t, Event("before", "post", j))
                  /\ \A i \in 1..m, j \in 1..m :
                        i < j => Pos(t, Event("before", "post", i))
                                   < Pos(t, Event("before", "post", j))
                  /\ \A j \in 1..m :
                        \A k \in 1..Len(t) :
                            t[k].ev \in {"handler", "notFound", "methodNotAllowed"} =>
                                k < Pos(t, Event("after", "post", j))]_vars

-----------------------------------------------------------------------------
(* C18 *)

\* C18: in the logger variant, a request that misses (unregistered path, or
\* registered path with an unregistered method) is served through the
\* middleware chain like a matched one: each pre-middleware whose
\* predecessors call next runs, and each post-middleware runs when all
\* pre-middleware and its predecessors call next.
C18_MiddlewareAroundDefaults ==
    [][\A w \in Workers :
          LET c == call'[w]
              reg == LastAddRoute(Len(history), c.path, c.req.Method)
              n == Len(preMiddleware)
          IN  (Completes(w) /\ variant = "logger" /\ reg.handler = "none") =>
                  /\ \A i \in 1..n :
                        (\A j \in 1..(i - 1) : CallsNext(preMiddleware[j])) =>
                            Ran(c.trace, "pre", i)
                  /\ \A i \in 1..Len(postMiddleware) :
                        (/\ \A j \in 1..n : CallsNext(preMiddleware[j])
                         /\ \A j \in 1..(i - 1) : CallsNext(postMiddleware[j])) =>
                            Ran(c.trace, "post", i)]_vars

-----------------------------------------------------------------------------
(* C19 *)

\* The middleware an event belongs to, and how deep its layer lies in the
\* chain of the variant: the logger router nests pre[1], ..., pre[n],
\* post[1], ..., post[m], router.go nests post[1], ..., post[m], pre[1], ...,
\* pre[n]; the handler that ends the dispatch lies below all of them.
LayerOf(e) ==
    IF e.who = "pre" THEN preMiddleware[e.idx] ELSE postMiddleware[e.idx]
Depth(e) ==
    IF e.ev \notin {"before", "after"}
    THEN Len(preMiddleware) + Len(postMiddleware) + 1
    ELSE IF variant = "logger"
         THEN (IF e.who = "pre" THEN e.idx ELSE Len(preMiddleware) + e.idx)
         ELSE (IF e.who = "post" THEN e.idx ELSE Len(postMiddleware) + e.idx)

\* C19: in both variants, when a middleware that runs returns a response
\* without calling next, the dispatch runs nothing that lies below it (no
\* later middleware of either list, no route handler, no not-found or
\* method-not-allowed handler); the layers above it get its response, and
\* when they return it unchanged HandleRequest returns it to the caller.
C19_ShortCircuit ==
    [][\A w \in Workers :
          LET c == call'[w]
              t == c.trace
          IN  Completes(w) =>
                  \A k \in 1..Len(t) :
                      (t[k].ev = "before" /\ LayerOf(t[k]).Func = "short") =>
                          /\ \A x \in 1..Len(t) : x # k => Depth(t[x]) < Depth(t[k])
                          /\ HandlerEvents(t) = <<>>
                          /\ ~c.escaped
                          /\ c.ret.StatusCode = StatusUnauthorized
                          /\ c.ret.Body = "Unauthorized"
                          /\ (\A x \in 1..(k - 1) : LayerOf(t[x]).Func = "pass") =>
                                c.ret = Unauthorized]_vars

\* router.go: the second pre-middleware answered by itself behind a
\* post-middleware and a pre-middleware that had called next; the handler of
\* the matched route did not run and the caller received the 401.
C19_Witness ==
    \E w \in Workers :
        /\ variant = "fu"
        /\ call[w].pc = "done"
        /\ call[w].req = Request(MethodGet, PathA, NoHeaders)
        /\ HasRoute(PathA, MethodGet)
        /\ call[w].trace = <<Event("before", "post", 1), Event("before", "pre", 1),
                             Event("before", "pre", 2),
                             Event("after", "pre", 1), Event("after", "post", 1)>>
        /\ call[w].ret = Unauthorized

-----------------------------------------------------------------------------
(* C20 *)

\* C20: in the logger variant, the status code in the completion entry a
\* HandleRequest call writes is the StatusCode of the Response the call
\* returns to its caller, on the matched, not-found, method-not-allowed and
\* panic paths alike.
C20_LoggedStatusIsReturned ==
    [][\A w \in Workers :
          (/\ Completes(w)
           /\ variant = "logger"
           /\ Len(logger') = Len(logger) + 1) =>
              logger'[Len(logger')].StatusCode = call'[w].ret.StatusCode]_vars

-----------------------------------------------------------------------------
(* C21 *)

\* The last AddRoute call for `path` whose upper-cased method is `key`.
RECURSIVE LastAddRouteUpper(_, _, _)
LastAddRouteUpper(n, path, key) ==
    IF n = 0 THEN [method |-> <<>>, path |-> <<>>, handler |-> "none"]
    ELSE IF history[n].path = path /\ ToUpper(history[n].method) = key
         THEN history[n]
         ELSE LastAddRouteUpper(n - 1, path, key)

\* Every registration is found under its upper-cased method, where the
\* handler of the last registration with that upper-cased method stands, and
\* the table has no key that is not upper-case.
StoredUpperCased ==
    /\ \A i \in 1..Len(history) :
          LET e == history[i] IN
          /\ HasRoute(e.path, ToUpper(e.method))
          /\ routes[e.path][ToUpper(e.method)] =
                LastAddRouteUpper(Len(history), e.path, ToUpper(e.method)).handler
    /\ \A p \in DOMAIN routes : \A m \in DOMAIN routes[p] : m = ToUpper(m)

\* The route handler a trace called, if any, is the one stored under the
\* request's method as it was sent.
MatchesVerbatim(c) ==
    \A k \in 1..Len(c.trace) :
        c.trace[k].ev = "handler" =>
            /\ HasRoute(c.path, c.req.Method)
            /\ c.trace[k].who = routes[c.path][c.req.Method]

\* The request's method is not upper-case and its path is registered.
LowerCaseOnRegisteredPath(c) ==
    /\ c.req.Method # ToUpper(c.req.Method)
    /\ PathRegistered(c.path)

\* C21 as stated: in router.go the table is keyed by upper-cased methods,
\* so registrations that differ in letter case only share an entry and the
\* later one wins; a request reaches a route handler only under its method
\* string as sent; and a request with a lower-case method for a registered
\* path gets the method-not-allowed response.
C21_AsStated ==
    [][variant = "fu" =>
          /\ StoredUpperCased /\ StoredUpperCased'
          /\ \A w \in Workers :
                Completes(w) =>
                    /\ MatchesVerbatim(call'[w])
                    /\ LowerCaseOnRegisteredPath(call'[w]) =>
                          EndsIn(call'[w], "methodNotAllowed", methodNotAllowedHandler,
                                 "defaultMethodNotAllowedHandler",
                                 StatusMethodNotAllowed)]_vars

\* C21, amended: as stated, except that a request with a lower-case method
\* for a registered path gets the method-not-allowed response when every
\* middleware that runs for it calls next and returns its result unchanged;
\* a middleware that answers by itself keeps the method-not-allowed handler
\* from being called.
C21_UpperCasedStorage ==
    [][variant = "fu" =>
          /\ StoredUpperCased /\ StoredUpperCased'
          /\ \A w \in Workers :
                Completes(w) =>
                    /\ MatchesVerbatim(call'[w])
                    /\ (/\ LowerCaseOnRegisteredPath(call'[w])
                        /\ AllPassThrough(call'[w].req)) =>
                          EndsIn(call'[w], "methodNotAllowed", methodNotAllowedHandler,
                                 "defaultMethodNotAllowedHandler",
                                 StatusMethodNotAllowed)]_vars

\* router.go after AddRoute("get", /a, h1) and AddRoute("GET", /a, h2): the
\* path has the one entry GET, holding h2, and a request with method get,
\* sent through a pre-middleware, ended in the default 405.
C21_Witness ==
    \E w \in Workers :
        /\ variant = "fu"
        /\ call[w].pc = "done"
        /\ Len(history) = 2
        /\ history[1] = [method |-> MethodGetLower, path |-> PathA, handler |-> "h1"]
        /\ history[2] = [method |-> MethodGet, path |-> PathA, handler |-> "h2"]
        /\ DOMAIN routes[PathA] = {MethodGet}
        /\ routes[PathA][MethodGet] = "h2"
        /\ call[w].req = Request(MethodGetLower, PathA, NoHeaders)
        /\ call[w].trace = <<Event("before", "pre", 1),
                             Event("methodNotAllowed", "defaultMethodNotAllowedHandler", 0),
                             Event("after", "pre", 1)>>
        /\ call[w].ret.StatusCode = StatusMethodNotAllowed

====
